---- MODULE Spec2Model ----
(***************************************************************************)
(* Model of scripts/unsupervised.py: main() as a sequential state machine. *)
(* Strings whose characters the code inspects (method names, spot          *)
(* identifiers, lines of computed_classes.txt) are sequences of            *)
(* one-character strings, so that formatting, splitting, substring tests   *)
(* and integer parsing are computed as Python computes them.               *)
(***************************************************************************)
EXTENDS Integers, Sequences, FiniteSets, TLC

\* ------------------------------------------------------------------------
\* Program constants (unsupervised.py lines 40-44, 93)
\* ------------------------------------------------------------------------
\* 0.1 and 0.2 as exact fractions <<numerator, denominator>>
MIN_GENES_SPOT_EXP == <<1, 10>>
MIN_GENES_SPOT_VAR == <<1, 5>>
MIN_FEATURES_GENE == 10
MIN_EXPRESION == 2
DIMENSIONS == 2
TPM_SCALE == 1000000

\* ------------------------------------------------------------------------
\* Bounds of the model
\* ------------------------------------------------------------------------
\* largest number of clusters tried (argparse allows 2..9)
MaxNumClusters == 3
\* number of leading positions of the clustering output that vary freely
LabelVary == 2
\* number of leading rows of a large input table whose values vary freely
FreeRows == 2
\* longest image list / alignment list
MaxImages == 2
\* largest coordinate considered when recognising "{x}x{y}" labels
MaxCoord == 5
\* longest list of count files
MaxFiles == 2
\* rows of a small input table (all vary freely)
SmallRows == 3
\* rows of a large input table
LargeRows == 10
\* largest size factor the external estimator is taken to return
MaxSizeFactor == 2

\* ------------------------------------------------------------------------
\* Python strings as sequences of characters
\* ------------------------------------------------------------------------
Digits == <<"0", "1", "2", "3", "4", "5", "6", "7", "8", "9">>

DigitSet == {Digits[k] : k \in 1..10}

DigitVal(c) == (CHOOSE k \in 1..10 : Digits[k] = c) - 1

\* str(n) / "{}".format(n) for an integer n
RECURSIVE NatToStr(_)
NatToStr(n) == IF n < 10 THEN <<Digits[n + 1]>>
               ELSE NatToStr(n \div 10) \o <<Digits[(n % 10) + 1]>>

IntToStr(n) == IF n < 0 THEN <<"-">> \o NatToStr(0 - n) ELSE NatToStr(n)

\* whether int(s) succeeds (otherwise Python raises ValueError)
IsIntLiteral(s) ==
    LET body == IF Len(s) > 0 /\ s[1] \in {"-", "+"} THEN Tail(s) ELSE s
    IN  /\ Len(body) > 0
        /\ \A k \in 1..Len(body) : body[k] \in DigitSet

RECURSIVE DigitsToNat(_)
DigitsToNat(s) == IF Len(s) = 0 THEN 0
                  ELSE 10 * DigitsToNat(SubSeq(s, 1, Len(s) - 1)) + DigitVal(s[Len(s)])

\* int(s) for a string on which int() succeeds
ParseInt(s) == IF s[1] = "-" THEN 0 - DigitsToNat(Tail(s))
               ELSE IF s[1] = "+" THEN DigitsToNat(Tail(s))
               ELSE DigitsToNat(s)

\* s.split(c) for a one-character separator c
RECURSIVE Split(_, _)
Split(s, c) ==
    IF \E k \in 1..Len(s) : s[k] = c
    THEN LET k == CHOOSE j \in 1..Len(s) : s[j] = c /\ \A h \in 1..(j - 1) : s[h] # c
         IN  <<SubSeq(s, 1, k - 1)>> \o Split(SubSeq(s, k + 1, Len(s)), c)
    ELSE <<s>>

\* Python's `a in b` for two strings: a is a contiguous substring of b
IsSubstring(a, b) ==
    \E k \in 0..(Len(b) - Len(a)) : SubSeq(b, k + 1, k + Len(a)) = a

\* the method names the code tests for
RAW == <<"R", "A", "W">>
DESeq == <<"D", "E", "S", "e", "q">>
TPM == <<"T", "P", "M">>
tSNE == <<"t", "S", "N", "E">>
PCA == <<"P", "C", "A">>
ICA == <<"I", "C", "A">>
SPCA == <<"S", "P", "C", "A">>
KMeans == <<"K", "M", "e", "a", "n", "s">>
Hierarchical == <<"H", "i", "e", "r", "a", "r", "c", "h", "i", "c", "a", "l">>

\* ------------------------------------------------------------------------
\* Exact fractions <<p, q>> with q > 0 in lowest terms; <<0, 0>> is NaN
\* ------------------------------------------------------------------------
NaN == <<0, 0>>

IsNaN(r) == r[2] = 0

Abs(n) == IF n < 0 THEN 0 - n ELSE n

RECURSIVE GCD(_, _)
GCD(a, b) == IF b = 0 THEN a ELSE GCD(b, a % b)

LCM(a, b) == (a \div GCD(a, b)) * b

\* p / q in lowest terms: NaN for 0 / 0, as in floating point (a non-zero
\* value over zero, an infinity, does not arise: the counts are not
\* negative, so a zero sum has zero terms, and size factors are positive)
Frac(p, q) ==
    IF q = 0 THEN NaN
    ELSE LET g == GCD(Abs(p), Abs(q))
             s == IF q < 0 THEN 0 - 1 ELSE 1
         IN  <<(s * p) \div g, (s * q) \div g>>

FromInt(n) == <<n, 1>>

RAdd(a, b) == IF IsNaN(a) \/ IsNaN(b) THEN NaN
              ELSE LET l == LCM(a[2], b[2])
                   IN  Frac(a[1] * (l \div a[2]) + b[1] * (l \div b[2]), l)

RNeg(a) == <<0 - a[1], a[2]>>

RSub(a, b) == RAdd(a, RNeg(b))

RMul(a, b) == IF IsNaN(a) \/ IsNaN(b) THEN NaN
              ELSE LET x == Frac(a[1], b[2])
                       y == Frac(b[1], a[2])
                   IN  <<x[1] * y[1], x[2] * y[2]>>

RInv(a) == IF a[1] = 0 THEN NaN ELSE Frac(a[2], a[1])

RDiv(a, b) == IF IsNaN(a) \/ IsNaN(b) THEN NaN ELSE RMul(a, RInv(b))

\* p1 / q1 >= p2 / q2 for p1, p2 >= 0 and q1, q2 > 0, by integer parts and
\* then the reciprocals of the remainders (no product is formed)
RECURSIVE GeqNonNeg(_, _, _, _)
GeqNonNeg(p1, q1, p2, q2) ==
    IF p1 \div q1 # p2 \div q2 THEN p1 \div q1 > p2 \div q2
    ELSE IF p2 % q2 = 0 THEN TRUE
    ELSE IF p1 % q1 = 0 THEN FALSE
    ELSE GeqNonNeg(q2, p2 % q2, q1, p1 % q1)

\* comparisons are False as soon as one side is NaN
RGeq(a, b) ==
    /\ ~IsNaN(a) /\ ~IsNaN(b)
    /\ IF a[1] >= 0 /\ b[1] >= 0 THEN GeqNonNeg(a[1], a[2], b[1], b[2])
       ELSE IF a[1] >= 0 THEN TRUE
       ELSE IF b[1] >= 0 THEN FALSE
       ELSE GeqNonNeg(0 - b[1], b[2], 0 - a[1], a[2])

RLess(a, b) == ~IsNaN(a) /\ ~IsNaN(b) /\ ~RGeq(a, b)

RECURSIVE RSum(_)
RSum(s) == IF Len(s) = 0 THEN FromInt(0) ELSE RAdd(s[1], RSum(Tail(s)))

\* the k-th smallest (k = 1 the least) of a non-empty sequence without NaN
KthSmallest(s, k) ==
    CHOOSE v \in {s[j] : j \in 1..Len(s)} :
        /\ Cardinality({j \in 1..Len(s) : RLess(s[j], v)}) < k
        /\ Cardinality({j \in 1..Len(s) : ~RLess(v, s[j])}) >= k

\* linear interpolation between the order statistics lo + 1 and lo + 2
Interpolate(valid, lo, rem, den, a) ==
    IF rem = 0 THEN a
    ELSE RAdd(a, RMul(Frac(rem, den), RSub(KthSmallest(valid, lo + 2), a)))

QuantileOfValid(valid, q) ==
    IF Len(valid) = 0 THEN NaN
    ELSE Interpolate(valid, ((Len(valid) - 1) * q[1]) \div q[2],
                     ((Len(valid) - 1) * q[1]) % q[2], q[2],
                     KthSmallest(valid, (((Len(valid) - 1) * q[1]) \div q[2]) + 1))

\* pandas Series.quantile(q): NaN entries are dropped; NaN when nothing is
\* left; otherwise linear interpolation between the two order statistics
\* around position (n - 1) * q
Quantile(s, q) == QuantileOfValid(SelectSeq(s, LAMBDA r : ~IsNaN(r)), q)

\* Python 2 round(x): to the nearest integer, halves away from zero;
\* round(NaN) is NaN
Round(r) ==
    IF IsNaN(r) THEN NaN
    ELSE IF r[1] >= 0 THEN FromInt((2 * r[1] + r[2]) \div (2 * r[2]))
    ELSE FromInt(0 - ((2 * (0 - r[1]) + r[2]) \div (2 * r[2])))


\* ------------------------------------------------------------------------
\* State
\* ------------------------------------------------------------------------
VARIABLES
    \* arguments of main (never modified, except outdir at line 60)
    counts_table_files, normalization, num_clusters, clustering_algorithm,
    dimensionality_algorithm, outdir, alignment_files, image_files,
    \* position in main and the loop counter of the loop being run
    pc, i,
    \* locals of main
    index_to_spots, counts, min_genes_spot_exp, norm_counts,
    min_genes_spot_var, decomp_model, reduced_data, clustering, labels,
    x_points_index, y_points_index, labels_index,
    \* the outside world: files created in creation order, the lines of
    \* computed_classes.txt, the overlay plots drawn, what was written to the
    \* error stream and the exit status of the process (-1 while running)
    files, classes_txt, tissue_plots, stderr, exit_status,
    \* history: what fit_predict returned, before line 154 rebinds labels
    fit_labels

args == <<counts_table_files, normalization, num_clusters, clustering_algorithm,
          dimensionality_algorithm, alignment_files, image_files>>

locals == <<index_to_spots, counts, min_genes_spot_exp, norm_counts,
            min_genes_spot_var, decomp_model, reduced_data, clustering, labels,
            x_points_index, y_points_index, labels_index, fit_labels>>

world == <<files, classes_txt, tissue_plots, stderr, exit_status>>

vars == <<args, outdir, pc, i, locals, world>>

\* ------------------------------------------------------------------------
\* Inputs
\* ------------------------------------------------------------------------
Genes == {"g1", "g2", "g3"}

RowOf(a, b, c) == [g \in Genes |-> IF g = "g1" THEN a ELSE IF g = "g2" THEN b ELSE c]

\* the gene counts a row of an enumerated table may hold
RowVals == {RowOf(0, 0, 0), RowOf(2, 0, 0), RowOf(1, 2, 0), RowOf(3, 2, 4)}

\* the raw label "{x}x{y}" of array coordinate (x, y)
CoordLabel(x, y) == IntToStr(x) \o <<"x">> \o IntToStr(y)

\* labels 1x1, 1x2, 2x1, 2x2, 3x1, ... for rows 1, 2, 3, ...
GridLabel(r) == CoordLabel((r + 1) \div 2, ((r + 1) % 2) + 1)

\* a table as pd.read_table returns it: its gene columns and its rows in
\* file order, with the values vals[r] and the labels 1x1, 1x2, ...
MkTable(genes, vals) ==
    [genes |-> genes,
     rows |-> [r \in 1..Len(vals) |-> [label |-> GridLabel(r),
                                       vals |-> [g \in genes |-> vals[r][g]]]]]

\* the rows of a fixed table of LargeRows rows: every value is at least 2,
\* but for one row of table 1 that has a gene at 0
BaseVal(k, r) == IF k = 1 /\ r = 5 THEN RowOf(2, 0, 3)
                 ELSE RowOf(2 + ((r + k) % 2), 2 + ((r \div 2) % 2), 2 + (r % 3))

BaseTable(k) == MkTable(Genes, [r \in 1..LargeRows |-> BaseVal(k, r)])

\* every table of SmallRows rows over RowVals
SmallTables ==
    {MkTable(Genes, f) : f \in [1..SmallRows -> RowVals]}

\* tables of n rows, all the same
UniformTable(n, v) == MkTable(Genes, [r \in 1..n |-> v])

UniformTables(n) == {UniformTable(n, v) : v \in RowVals}

\* tables of LargeRows rows: the first FreeRows vary, the others are the same
LargeTables ==
    {MkTable(Genes, [r \in 1..LargeRows |-> IF r <= FreeRows THEN f[r] ELSE v]) :
        f \in [1..FreeRows -> RowVals], v \in {RowOf(3, 2, 4), RowOf(2, 3, 0)}}

\* row labels that are not of the form "{x}x{y}"
OddLabels == {<<"1", "_", "2", "x", "3">>, <<"a", "b">>, <<"1", "x", "2", "x", "3">>,
              <<"a", "x", "1">>, <<"1", "x", "b">>, <<"-", "1", "x", "2">>,
              <<"0", "1", "x", "2">>}

\* BaseTable(k) with the label of row r replaced by l
Relabelled(k, r, l) == [BaseTable(k) EXCEPT !.rows[r].label = l]

\* a table that lacks the gene g2 and has a gene g4 of its own
OtherGenesTable(k) ==
    MkTable({"g1", "g3", "g4"},
            [r \in 1..LargeRows |->
                [g \in {"g1", "g3", "g4"} |->
                    IF g = "g4" THEN 2 + (r % 2) ELSE BaseVal(k, r)[g]]])

\* a path given on the command line: whether os.path.isfile holds of it and,
\* if so, the table it contains
File(ok, t) == [isfile |-> ok, table |-> t]

BaseFiles(n) == [k \in 1..n |-> File(TRUE, BaseTable(k - 1))]

\* an optional list argument: None, or a list
None == [given |-> FALSE, items |-> <<>>]

Some(l) == [given |-> TRUE, items |-> l]

\* an alignment file: the path at position k of --alignment-files, or None
NoFile == [none |-> TRUE, path |-> 0]

AlignmentFile(k) == [none |-> FALSE, path |-> k]

Bogus == <<"B", "o", "g", "u", "s">>

NormalizationNames == {RAW, DESeq, TPM, Bogus, <<"S", "e", "q">>}

DimensionalityNames == {tSNE, PCA, ICA, SPCA, Bogus}

ClusteringNames == {KMeans, Hierarchical, Bogus}

\* --image-files: absent, or 1..MaxImages paths, each an existing file or not
ImageLists ==
    {None} \cup UNION {{Some([k \in 1..n |-> [isfile |-> f[k]]]) : f \in [1..n -> BOOLEAN]} :
                          n \in 1..MaxImages}

\* --alignment-files: absent, or 1..MaxImages paths
AlignmentLists ==
    {None} \cup {Some([k \in 1..n |-> AlignmentFile(k - 1)]) : n \in 1..MaxImages}

\* ------------------------------------------------------------------------
\* Init: main is entered with its arguments
\* ------------------------------------------------------------------------
EmptyCounts == [genes |-> {}, spots |-> <<>>]

Start(fs, norm, k, clus, dim, out, al, im) ==
    /\ counts_table_files = fs
    /\ normalization = norm
    /\ num_clusters = k
    /\ clustering_algorithm = clus
    /\ dimensionality_algorithm = dim
    /\ outdir = out
    /\ alignment_files = al
    /\ image_files = im
    /\ pc = "validate"
    /\ i = 0
    /\ index_to_spots = <<>>
    /\ counts = EmptyCounts
    /\ min_genes_spot_exp = NaN
    /\ norm_counts = EmptyCounts
    /\ min_genes_spot_var = NaN
    /\ decomp_model = "unset"
    /\ reduced_data = [rows |-> 0, cols |-> 0]
    /\ clustering = "unset"
    /\ labels = <<>>
    /\ fit_labels = <<>>
    /\ x_points_index = <<>>
    /\ y_points_index = <<>>
    /\ labels_index = <<>>
    /\ files = <<>>
    /\ classes_txt = <<>>
    /\ tissue_plots = <<>>
    /\ stderr = ""
    /\ exit_status = 0 - 1

\* file lists of every length, each path an existing file or not, with and
\* without --outdir
InitFiles ==
    \E n \in 0..MaxFiles : \E ok \in [1..n -> BOOLEAN] : \E out \in {"None", "out"} :
        Start([k \in 1..n |-> File(ok[k], BaseTable(k - 1))],
              RAW, 2, KMeans, ICA, out, None, None)

\* every combination of method names
InitNames ==
    \E norm \in NormalizationNames, dim \in DimensionalityNames,
       clus \in ClusteringNames :
        Start(BaseFiles(1), norm, 2, clus, dim, "out", None, None)

\* every number of clusters
InitClusters ==
    \E k \in 2..MaxNumClusters, clus \in {KMeans, Hierarchical} :
        Start(BaseFiles(1), RAW, k, clus, ICA, "out", None, None)

\* every image list with every alignment list, for one table and for
\* MaxFiles tables
InitImages ==
    \E n \in {1, MaxFiles}, im \in ImageLists, al \in AlignmentLists :
        Start(BaseFiles(n), RAW, 2, KMeans, PCA, "out", al, im)

\* the tables vary
InitTables ==
    \/ \E t0 \in SmallTables, t1 \in UniformTables(SmallRows) :
          Start(<<File(TRUE, t0), File(TRUE, t1)>>, RAW, 2, KMeans, PCA, "out", None, None)
    \/ \E t0 \in LargeTables :
          Start(<<File(TRUE, t0), File(TRUE, UniformTable(LargeRows, RowOf(1, 2, 0)))>>,
                TPM, 2, KMeans, PCA, "out", None, None)
    \/ \E k \in 0..1, norm \in {RAW, TPM} :
          Start(<<File(TRUE, BaseTable(k)), File(TRUE, OtherGenesTable(1 - k))>>,
                norm, 2, KMeans, PCA, "out", None, None)
    \/ Start(<<File(TRUE, MkTable(Genes, <<>>))>>,
             RAW, 2, KMeans, PCA, "out", None, None)

\* a row label varies
InitLabels ==
    \E k \in 0..1, r \in {1, LargeRows}, l \in OddLabels :
        Start([BaseFiles(2) EXCEPT ![k + 1].table = Relabelled(k, r, l)],
              TPM, 2, Hierarchical, tSNE, "out", None, None)

Init == InitFiles \/ InitNames \/ InitClusters \/ InitImages \/ InitTables \/ InitLabels

\* ------------------------------------------------------------------------
\* Ways main ends early
\* ------------------------------------------------------------------------
\* sys.stderr.write(msg); sys.exit(1)
SysExit(msg) ==
    /\ stderr' = msg
    /\ exit_status' = 1
    /\ pc' = "exit"

\* an exception nobody catches: the interpreter prints the traceback to the
\* error stream and the process ends with status 1
Raise(exc) ==
    /\ stderr' = exc
    /\ exit_status' = 1
    /\ pc' = "crashed"

\* ------------------------------------------------------------------------
\* Lines 55-60: input validation, output directory
\* ------------------------------------------------------------------------
FilesInvalid ==
    \/ Len(counts_table_files) = 0
    \/ \E k \in 1..Len(counts_table_files) : ~counts_table_files[k].isfile

Validate ==
    /\ pc = "validate"
    /\ IF FilesInvalid
       THEN /\ SysExit("Error, input file/s not present or invalid format\n")
            /\ UNCHANGED <<outdir, index_to_spots, counts, i>>
       ELSE /\ outdir' = IF outdir = "None" THEN "cwd" ELSE outdir
            /\ index_to_spots' = [k \in 1..Len(counts_table_files) |-> <<>>]
            /\ counts' = EmptyCounts
            /\ i' = 0
            /\ pc' = "load"
            /\ UNCHANGED <<stderr, exit_status>>
    /\ UNCHANGED <<args, min_genes_spot_exp, norm_counts, min_genes_spot_var,
                   decomp_model, reduced_data, clustering, labels, fit_labels,
                   x_points_index, y_points_index, labels_index,
                   files, classes_txt, tissue_plots>>

\* ------------------------------------------------------------------------
\* Lines 65-71: load, prefix the row labels, concatenate, fill the gaps
\* ------------------------------------------------------------------------
\* a variant that drops the position of the table
PrefixLabelNoIndex(k, spot) == <<"_">> \o spot

\* "{0}_{1}".format(i, spot)
PrefixLabel(k, spot) == IntToStr(k) \o <<"_">> \o spot

\* the new row labels of table t, the k-th (from 0) of the list
NewSpots(k, t) == [r \in 1..Len(t.rows) |-> PrefixLabel(k, t.rows[r].label)]

\* counts.append(new_counts): the rows of both, over the union of the
\* columns, NaN where a row has no such column. Each row carries, as
\* history, the table and row it was read from (src).
AppendTable(c, k, t) ==
    LET genes == c.genes \cup t.genes
        Widen(vals, have) == [g \in genes |-> IF g \in have THEN vals[g] ELSE NaN]
    IN  [genes |-> genes,
         spots |-> [r \in 1..Len(c.spots) |->
                        [c.spots[r] EXCEPT !.vals = Widen(@, c.genes)]]
                   \o [r \in 1..Len(t.rows) |->
                        [id |-> PrefixLabel(k, t.rows[r].label),
                         src |-> <<k, r>>,
                         vals |-> Widen([g \in t.genes |-> FromInt(t.rows[r].vals[g])],
                                        t.genes)]]]

LoadTable ==
    /\ pc = "load"
    /\ i < Len(counts_table_files)
    /\ LET t == counts_table_files[i + 1].table
       IN  /\ counts' = AppendTable(counts, i, t)
           /\ index_to_spots' = [index_to_spots EXCEPT ![i + 1] = Append(@, NewSpots(i, t))]
    /\ i' = i + 1
    /\ UNCHANGED <<args, outdir, pc, min_genes_spot_exp, norm_counts, min_genes_spot_var,
                   decomp_model, reduced_data, clustering, labels, fit_labels,
                   x_points_index, y_points_index, labels_index, world>>

\* counts.fillna(0.0, inplace=True)
FillNa(c) ==
    [c EXCEPT !.spots = [r \in 1..Len(c.spots) |->
        [c.spots[r] EXCEPT !.vals = [g \in c.genes |->
            IF IsNaN(c.spots[r].vals[g]) THEN FromInt(0) ELSE c.spots[r].vals[g]]]]]

Merged ==
    /\ pc = "load"
    /\ i = Len(counts_table_files)
    /\ counts' = FillNa(counts)
    /\ pc' = "spot_filter"
    /\ UNCHANGED <<args, outdir, i, index_to_spots, min_genes_spot_exp, norm_counts,
                   min_genes_spot_var, decomp_model, reduced_data, clustering, labels,
                   fit_labels, x_points_index, y_points_index, labels_index, world>>

\* ------------------------------------------------------------------------
\* Lines 74-83: quality filter
\* ------------------------------------------------------------------------
\* (counts != 0).sum(axis=1) for one spot
Expressed(c, sp) == Cardinality({g \in c.genes : sp.vals[g] # FromInt(0)})

\* round((counts != 0).sum(axis=1).quantile(MIN_GENES_SPOT_EXP))
MinGenesSpotExp(c) ==
    Round(Quantile([r \in 1..Len(c.spots) |-> FromInt(Expressed(c, c.spots[r]))],
                   MIN_GENES_SPOT_EXP))

\* a variant that keeps a spot only above the threshold
KeepSpotStrict(c, sp, thr) == ~RGeq(thr, FromInt(Expressed(c, sp)))

\* line 79: whether a spot is kept
KeepSpot(c, sp, thr) == RGeq(FromInt(Expressed(c, sp)), thr)

\* line 79: the rows of the spots that are kept, in their order
SpotsKept(c, thr) == SelectSeq(c.spots, LAMBDA sp : KeepSpot(c, sp, thr))

SpotFilter ==
    /\ pc = "spot_filter"
    /\ min_genes_spot_exp' = MinGenesSpotExp(counts)
    /\ counts' = [counts EXCEPT !.spots = SpotsKept(counts, MinGenesSpotExp(counts))]
    /\ pc' = "gene_filter"
    /\ UNCHANGED <<args, outdir, i, index_to_spots, norm_counts, min_genes_spot_var,
                   decomp_model, reduced_data, clustering, labels, fit_labels,
                   x_points_index, y_points_index, labels_index, world>>

\* (counts >= MIN_EXPRESION).sum(axis=1) for one gene
SpotsExpressing(c, g) ==
    Cardinality({r \in 1..Len(c.spots) : RGeq(c.spots[r].vals[g], FromInt(MIN_EXPRESION))})

\* line 83: whether a gene is kept
KeepGene(c, g) == SpotsExpressing(c, g) >= MIN_FEATURES_GENE

\* the matrix with only the genes of keep (the spots and their order stay)
RestrictGenes(c, keep) ==
    [genes |-> keep,
     spots |-> [r \in 1..Len(c.spots) |->
                   [c.spots[r] EXCEPT !.vals = [g \in keep |-> c.spots[r].vals[g]]]]]

\* lines 81-83; the transposition changes how the frame is laid out, not
\* which value belongs to which (spot, gene)
GeneFilter ==
    /\ pc = "gene_filter"
    /\ counts' = RestrictGenes(counts, {g \in counts.genes : KeepGene(counts, g)})
    /\ pc' = "normalize"
    /\ UNCHANGED <<args, outdir, i, index_to_spots, min_genes_spot_exp, norm_counts,
                   min_genes_spot_var, decomp_model, reduced_data, clustering, labels,
                   fit_labels, x_points_index, y_points_index, labels_index, world>>

\* ------------------------------------------------------------------------
\* Lines 86-98: normalization
\* ------------------------------------------------------------------------
\* the values of gene g over the spots, in spot order
GeneValues(c, g) == [r \in 1..Len(c.spots) |-> c.spots[r].vals[g]]

\* the values of the spot at row r over the genes, as a set-indexed sum
RECURSIVE SumOver(_, _)
SumOver(f, S) ==
    IF S = {} THEN FromInt(0)
    ELSE LET g == CHOOSE x \in S : TRUE IN RAdd(f[g], SumOver(f, S \ {g}))

\* computeSizeFactors(counts, function=np.median): one factor per spot. The
\* estimator is not part of the script; any positive factors may come back.
SizeFactors(c) ==
    {[r \in 1..Len(c.spots) |-> IF r % 2 = 1 THEN a ELSE b] :
        a \in 1..MaxSizeFactor, b \in 1..MaxSizeFactor}

\* line 88: counts.div(size_factors), the columns (spots) matched by label
DivSizeFactors(c, sf) ==
    [c EXCEPT !.spots = [r \in 1..Len(c.spots) |->
        [c.spots[r] EXCEPT !.vals = [g \in c.genes |->
            RDiv(c.spots[r].vals[g], FromInt(sf[r]))]]]]

\* line 92: counts.sum(axis=1) on the genes-by-spots frame: one sum per row
\* of that frame, that is per gene, over the spots
SpotsSum(c) == [g \in c.genes |-> RSum(GeneValues(c, g))]

\* line 93: counts.transpose() has the genes as columns, and div matches the
\* index of spots_sum (the genes) against those columns: every value is
\* divided by the entry of spots_sum for its gene
DivSpotsSum(c, spots_sum) ==
    [c EXCEPT !.spots = [r \in 1..Len(c.spots) |->
        [c.spots[r] EXCEPT !.vals = [g \in c.genes |->
            RMul(RDiv(c.spots[r].vals[g], spots_sum[g]), FromInt(TPM_SCALE))]]]]

TpmNormalize(c) == DivSpotsSum(c, SpotsSum(c))

Normalize ==
    /\ pc = "normalize"
    /\ IF IsSubstring(normalization, DESeq)
       THEN /\ \E sf \in SizeFactors(counts) : norm_counts' = DivSizeFactors(counts, sf)
            /\ pc' = "variance_filter"
            /\ UNCHANGED <<stderr, exit_status>>
       ELSE IF IsSubstring(normalization, TPM)
       THEN /\ norm_counts' = TpmNormalize(counts)
            /\ pc' = "variance_filter"
            /\ UNCHANGED <<stderr, exit_status>>
       ELSE IF IsSubstring(normalization, RAW)
       THEN /\ norm_counts' = counts
            /\ pc' = "variance_filter"
            /\ UNCHANGED <<stderr, exit_status>>
       ELSE /\ SysExit("Error, incorrect normalization method\n")
            /\ UNCHANGED norm_counts
    /\ UNCHANGED <<args, outdir, i, index_to_spots, counts, min_genes_spot_exp,
                   min_genes_spot_var, decomp_model, reduced_data, clustering, labels,
                   fit_labels, x_points_index, y_points_index, labels_index,
                   files, classes_txt, tissue_plots>>

\* ------------------------------------------------------------------------
\* Lines 106-114: variance filter, normalized_counts.tsv
\* ------------------------------------------------------------------------
\* The unit in which the values enter the variance. The TPM values are
\* multiples of 1e6, and their squares exceed the integers of the checker.
VarUnit ==
    IF ~IsSubstring(normalization, DESeq) /\ IsSubstring(normalization, TPM)
    THEN FromInt(TPM_SCALE) ELSE FromInt(1)

\* the first r values of gene g, in spot order, in units of unit
RECURSIVE UnitValues(_, _, _, _)
UnitValues(c, g, r, unit) ==
    IF r = 0 THEN <<>>
    ELSE Append(UnitValues(c, g, r - 1, unit), RDiv(c.spots[r].vals[g], unit))

\* the least common denominator of the first r fractions of x
RECURSIVE DenLcm(_, _)
DenLcm(x, r) == IF r = 0 THEN 1 ELSE LCM(x[r][2], DenLcm(x, r - 1))

\* the numerator of the fraction x[r] over the denominator l
Numer(x, r, l) == x[r][1] * (l \div x[r][2])

\* the sum of the numerators of the first r fractions of x
RECURSIVE NumerSum(_, _, _)
NumerSum(x, r, l) == IF r = 0 THEN 0 ELSE Numer(x, r, l) + NumerSum(x, r - 1, l)

\* the sum of their squares
RECURSIVE NumerSquareSum(_, _, _)
NumerSquareSum(x, r, l) ==
    IF r = 0 THEN 0 ELSE Numer(x, r, l) * Numer(x, r, l) + NumerSquareSum(x, r - 1, l)

\* n * sum(x^2) - sum(x)^2 for the n values p / l
ScaledVariance(n, sum, squares, l) == Frac(n * squares - sum * sum, l * l)

VarianceOver(x, l) ==
    ScaledVariance(Len(x), NumerSum(x, Len(x), l), NumerSquareSum(x, Len(x), l), l)

VarianceOfValues(x) == VarianceOver(x, DenLcm(x, Len(x)))

\* norm_counts.var(axis=1) for one gene: the unbiased sample variance
\* (ddof = 1) of its n values x, NaN when n < 2 or some value is NaN. What
\* is computed is n * (n - 1) / VarUnit^2 times the variance, that is
\* n * sum(x^2) - sum(x)^2 for the values in units of VarUnit: the factor is
\* positive and the same for every gene, so neither the quantile's position
\* among the variances nor the comparison of line 109 depends on it.
Variance(c, g) ==
    IF Len(c.spots) < 2 \/ \E r \in 1..Len(c.spots) : IsNaN(c.spots[r].vals[g])
    THEN NaN
    ELSE VarianceOfValues(UnitValues(c, g, Len(c.spots), VarUnit))

\* some enumeration of a finite set
RECURSIVE SeqOfSet(_)
SeqOfSet(S) ==
    IF S = {} THEN <<>>
    ELSE LET x == CHOOSE y \in S : TRUE IN <<x>> \o SeqOfSet(S \ {x})

\* norm_counts.var(axis=1).quantile(MIN_GENES_SPOT_VAR)
VariancesOf(c, gs) == [k \in 1..Len(gs) |-> Variance(c, gs[k])]

MinGenesSpotVar(c) == Quantile(VariancesOf(c, SeqOfSet(c.genes)), MIN_GENES_SPOT_VAR)

\* line 109: the genes that are kept
GenesKept(c, thr) == {g \in c.genes : RGeq(Variance(c, g), thr)}

VarianceFilter ==
    /\ pc = "variance_filter"
    /\ min_genes_spot_var' = MinGenesSpotVar(norm_counts)
    /\ norm_counts' = RestrictGenes(norm_counts,
                                    GenesKept(norm_counts, MinGenesSpotVar(norm_counts)))
    /\ pc' = "write_normalized"
    /\ UNCHANGED <<args, outdir, i, index_to_spots, counts, min_genes_spot_exp,
                   decomp_model, reduced_data, clustering, labels, fit_labels,
                   x_points_index, y_points_index, labels_index, world>>

\* a file under the output directory; index is the number formatted into
\* the name, -1 when the name has none
OutFile(name, index) == [dir |-> outdir, name |-> name, index |-> index]

\* a variant that empties the output directory first
CreateFileAlone(fs, f) == <<f>>

\* the files on disk after to_csv (line 114) or open (line 177) creates one
CreateFile(fs, f) == Append(fs, f)

\* the files on disk after scatter_plot(..., output=f, ...) returns: it
\* writes the plot to the file named by output
ScatterPlot(fs, f) == Append(fs, f)

WriteNormalized ==
    /\ pc = "write_normalized"
    /\ files' = CreateFile(files, OutFile("normalized_counts.tsv", 0 - 1))
    /\ pc' = "select_reducer"
    /\ UNCHANGED <<args, outdir, i, locals, classes_txt, tissue_plots, stderr, exit_status>>

\* ------------------------------------------------------------------------
\* Lines 116-140: dimensionality reduction
\* ------------------------------------------------------------------------
\* the chain of substring tests of lines 116-137: the model constructed, or
\* "none" when every test fails
ReducerFor(name) ==
    IF IsSubstring(tSNE, name) THEN "TSNE"
    ELSE IF IsSubstring(PCA, name) THEN "PCA"
    ELSE IF IsSubstring(ICA, name) THEN "FastICA"
    ELSE IF IsSubstring(SPCA, name) THEN "SparsePCA"
    ELSE "none"

SelectReducer ==
    /\ pc = "select_reducer"
    /\ IF ReducerFor(dimensionality_algorithm) # "none"
       THEN /\ decomp_model' = ReducerFor(dimensionality_algorithm)
            /\ pc' = "fit_transform"
            /\ UNCHANGED <<stderr, exit_status>>
       ELSE /\ SysExit("Error, incorrect dimensionality reduction method\n")
            /\ UNCHANGED decomp_model
    /\ UNCHANGED <<args, outdir, i, index_to_spots, counts, min_genes_spot_exp,
                   norm_counts, min_genes_spot_var, reduced_data, clustering, labels,
                   fit_labels, x_points_index, y_points_index, labels_index,
                   files, classes_txt, tissue_plots>>

\* line 140: decomp_model.fit_transform(np.log2(norm_counts + 1)). The
\* library refuses a matrix without rows or without columns. With fewer
\* columns than DIMENSIONS it refuses, or returns fewer than DIMENSIONS
\* coordinates, or copes, depending on the algorithm and its version.
\* Otherwise it returns one row of DIMENSIONS coordinates per spot (the
\* coordinates themselves are not modelled).
FitTransform ==
    /\ pc = "fit_transform"
    /\ LET rows == Len(norm_counts.spots)
           cols == Cardinality(norm_counts.genes)
       IN  \/ /\ rows > 0 /\ cols >= DIMENSIONS
              /\ reduced_data' = [rows |-> rows, cols |-> DIMENSIONS]
              /\ pc' = "select_clustering"
              /\ UNCHANGED <<stderr, exit_status>>
           \/ /\ rows > 0 /\ cols > 0 /\ cols < DIMENSIONS
              /\ \E d \in {cols, DIMENSIONS} : reduced_data' = [rows |-> rows, cols |-> d]
              /\ pc' = "select_clustering"
              /\ UNCHANGED <<stderr, exit_status>>
           \/ /\ rows = 0 \/ cols < DIMENSIONS
              /\ Raise("ValueError")
              /\ UNCHANGED reduced_data
    /\ UNCHANGED <<args, outdir, i, index_to_spots, counts, min_genes_spot_exp,
                   norm_counts, min_genes_spot_var, decomp_model, clustering, labels,
                   fit_labels, x_points_index, y_points_index, labels_index,
                   files, classes_txt, tissue_plots>>

\* ------------------------------------------------------------------------
\* Lines 143-154: clustering, label shift
\* ------------------------------------------------------------------------
\* the chain of substring tests of lines 143-151
ClusteringFor(name) ==
    IF IsSubstring(KMeans, name) THEN "KMeans"
    ELSE IF IsSubstring(Hierarchical, name) THEN "AgglomerativeClustering"
    ELSE "none"

SelectClustering ==
    /\ pc = "select_clustering"
    /\ IF ClusteringFor(clustering_algorithm) # "none"
       THEN /\ clustering' = ClusteringFor(clustering_algorithm)
            /\ pc' = "fit_predict"
            /\ UNCHANGED <<stderr, exit_status>>
       ELSE /\ SysExit("Error, incorrect clustering method\n")
            /\ UNCHANGED clustering
    /\ UNCHANGED <<args, outdir, i, index_to_spots, counts, min_genes_spot_exp,
                   norm_counts, min_genes_spot_var, decomp_model, reduced_data, labels,
                   fit_labels, x_points_index, y_points_index, labels_index,
                   files, classes_txt, tissue_plots>>

\* what clustering.fit_predict may return for n points and k clusters: one
\* label in 0..k-1 per point. The first LabelVary labels vary freely, the
\* others repeat the last of them.
ClusterOutputs(n, k) ==
    {[r \in 1..n |-> IF r <= LabelVary THEN f[r] ELSE f[LabelVary]] :
        f \in [1..LabelVary -> 0..(k - 1)]}

\* line 153; the library refuses fewer points than clusters
FitPredict ==
    /\ pc = "fit_predict"
    /\ IF reduced_data.rows < num_clusters
       THEN /\ Raise("ValueError")
            /\ UNCHANGED <<labels, fit_labels>>
       ELSE /\ \E l \in ClusterOutputs(reduced_data.rows, num_clusters) :
                   /\ labels' = l
                   /\ fit_labels' = l
            /\ pc' = "shift_labels"
            /\ UNCHANGED <<stderr, exit_status>>
    /\ UNCHANGED <<args, outdir, i, index_to_spots, counts, min_genes_spot_exp,
                   norm_counts, min_genes_spot_var, decomp_model, reduced_data,
                   clustering, x_points_index, y_points_index, labels_index,
                   files, classes_txt, tissue_plots>>

\* a variant that shifts whether or not a label is 0
ShiftedLabelsAlways(l) == [r \in 1..Len(l) |-> l[r] + 1]

\* line 154: if 0 in labels: labels = labels + 1
ShiftedLabels(l) ==
    IF \E r \in 1..Len(l) : l[r] = 0 THEN [r \in 1..Len(l) |-> l[r] + 1] ELSE l

ShiftLabels ==
    /\ pc = "shift_labels"
    /\ labels' = ShiftedLabels(labels)
    /\ pc' = "plot_classes"
    /\ UNCHANGED <<args, outdir, i, index_to_spots, counts, min_genes_spot_exp,
                   norm_counts, min_genes_spot_var, decomp_model, reduced_data,
                   clustering, fit_labels, x_points_index, y_points_index,
                   labels_index, world>>

\* ------------------------------------------------------------------------
\* Lines 157-168: the scatter plot of all spots
\* ------------------------------------------------------------------------
\* reduced_data[:,0] and reduced_data[:,1] are taken before scatter_plot is
\* called; scatter_plot writes the file named by output
PlotClasses ==
    /\ pc = "plot_classes"
    /\ IF reduced_data.cols < 2
       THEN /\ Raise("IndexError")
            /\ UNCHANGED files
       ELSE /\ files' = ScatterPlot(files, OutFile("computed_classes.png", 0 - 1))
            /\ pc' = "open_classes"
            /\ UNCHANGED <<stderr, exit_status>>
    /\ UNCHANGED <<args, outdir, i, locals, classes_txt, tissue_plots>>

\* ------------------------------------------------------------------------
\* Lines 171-188: computed_classes.txt and the per-dataset arrays
\* ------------------------------------------------------------------------
OpenClasses ==
    /\ pc = "open_classes"
    /\ IF Len(labels) # Len(norm_counts.spots)
       THEN /\ Raise("AssertionError")
            /\ UNCHANGED <<x_points_index, y_points_index, labels_index, files,
                           classes_txt, i>>
       ELSE /\ x_points_index' = [k \in 1..Len(counts_table_files) |-> <<>>]
            /\ y_points_index' = [k \in 1..Len(counts_table_files) |-> <<>>]
            /\ labels_index' = [k \in 1..Len(counts_table_files) |-> <<>>]
            /\ files' = CreateFile(files, OutFile("computed_classes.txt", 0 - 1))
            /\ classes_txt' = <<>>
            /\ i' = 0
            /\ pc' = "write_classes"
            /\ UNCHANGED <<stderr, exit_status>>
    /\ UNCHANGED <<args, outdir, index_to_spots, counts, min_genes_spot_exp,
                   norm_counts, min_genes_spot_var, decomp_model, reduced_data,
                   clustering, labels, fit_labels, tissue_plots>>

\* lines 180-184 on the identifier bc: the exception raised, or "ok"
HeadError(head) ==
    IF Len(head) < 2 THEN "IndexError"
    ELSE IF ~IsIntLiteral(head[2]) THEN "ValueError"
    ELSE IF ~IsIntLiteral(head[1]) THEN "ValueError"
    ELSE "ok"

TokensError(tokens) ==
    IF Len(tokens) # 2 THEN "AssertionError"
    ELSE IF ~IsIntLiteral(tokens[2]) THEN "ValueError"
    ELSE HeadError(Split(tokens[1], "_"))

ParseError(bc) == TokensError(Split(bc, "x"))

\* lines 182-184 on tokens[1], tokens[0].split("_")
SpotOf(y_token, head) ==
    [index |-> ParseInt(head[1]), x |-> ParseInt(head[2]), y |-> ParseInt(y_token)]

TokensSpot(tokens) == SpotOf(tokens[2], Split(tokens[1], "_"))

\* a variant that takes x and y from each other's token
ParseSpotSwapped(bc) ==
    [index |-> TokensSpot(Split(bc, "x")).index,
     x |-> TokensSpot(Split(bc, "x")).y,
     y |-> TokensSpot(Split(bc, "x")).x]

\* lines 180-184 on an identifier they accept: index, x and y
ParseSpot(bc) == TokensSpot(Split(bc, "x"))

\* a variant that writes the identifier first
ClassLineSwapped(label, bc) == bc \o <<"\t">> \o IntToStr(label)

\* line 188: "{0}\t{1}\n".format(label, bc), without the newline
ClassLine(label, bc) == IntToStr(label) \o <<"\t">> \o bc

\* one iteration of the loop of line 178, for the spot at position i (the
\* lists are indexed by a dataset index in range; a negative one does not
\* arise, the prefix being the digits of a position)
WriteClass ==
    /\ pc = "write_classes"
    /\ i < Len(norm_counts.spots)
    /\ LET bc == norm_counts.spots[i + 1].id
       IN  IF ParseError(bc) # "ok"
           THEN /\ Raise(ParseError(bc))
                /\ UNCHANGED <<x_points_index, y_points_index, labels_index,
                               classes_txt, i>>
           ELSE IF ParseSpot(bc).index >= Len(counts_table_files)
           THEN /\ Raise("IndexError")
                /\ UNCHANGED <<x_points_index, y_points_index, labels_index,
                               classes_txt, i>>
           ELSE /\ x_points_index' = [x_points_index EXCEPT
                       ![ParseSpot(bc).index + 1] = Append(@, ParseSpot(bc).x)]
                /\ y_points_index' = [y_points_index EXCEPT
                       ![ParseSpot(bc).index + 1] = Append(@, ParseSpot(bc).y)]
                /\ labels_index' = [labels_index EXCEPT
                       ![ParseSpot(bc).index + 1] = Append(@, labels[i + 1])]
                /\ classes_txt' = Append(classes_txt, ClassLine(labels[i + 1], bc))
                /\ i' = i + 1
                /\ UNCHANGED <<pc, stderr, exit_status>>
    /\ UNCHANGED <<args, outdir, index_to_spots, counts, min_genes_spot_exp,
                   norm_counts, min_genes_spot_var, decomp_model, reduced_data,
                   clustering, labels, fit_labels, files, tissue_plots>>

\* the loop ends and the file is closed
ClassesWritten ==
    /\ pc = "write_classes"
    /\ i = Len(norm_counts.spots)
    /\ i' = 0
    /\ pc' = "images"
    /\ UNCHANGED <<args, outdir, locals, world>>

\* ------------------------------------------------------------------------
\* Lines 190-206: one overlay plot per image
\* ------------------------------------------------------------------------
\* enumerate(image_files) if image_files else []
Images == IF image_files.given THEN image_files.items ELSE <<>>

\* line 192 for the image at position k (from 0): the exception raised, or "ok"
AlignmentError(k) ==
    IF ~alignment_files.given THEN "TypeError"
    ELSE IF Len(alignment_files.items) >= k /\ k >= Len(alignment_files.items)
    THEN "IndexError"
    ELSE "ok"

\* line 192 when it raises nothing
AlignmentFor(k) ==
    IF Len(alignment_files.items) >= k THEN alignment_files.items[k + 1] ELSE NoFile

\* one iteration of the loop of line 190, for the image at position i.
\* parseAlignmentMatrix gives the identity for None; scatter_plot draws the
\* arrays of dataset i over the image and writes the file named by output.
PlotImage ==
    /\ pc = "images"
    /\ i < Len(Images)
    /\ IF ~Images[i + 1].isfile
       THEN /\ i' = i + 1
            /\ UNCHANGED <<pc, files, tissue_plots, stderr, exit_status>>
       ELSE IF AlignmentError(i) # "ok"
       THEN /\ Raise(AlignmentError(i))
            /\ UNCHANGED <<i, files, tissue_plots>>
       ELSE IF i >= Len(x_points_index)
       THEN /\ Raise("IndexError")
            /\ UNCHANGED <<i, files, tissue_plots>>
       ELSE /\ tissue_plots' = Append(tissue_plots,
                   [image |-> i, alignment |-> AlignmentFor(i),
                    x_points |-> x_points_index[i + 1],
                    y_points |-> y_points_index[i + 1],
                    colors |-> labels_index[i + 1]])
            /\ files' = ScatterPlot(files, OutFile("computed_classes_tissue_{}.png", i))
            /\ i' = i + 1
            /\ UNCHANGED <<pc, stderr, exit_status>>
    /\ UNCHANGED <<args, outdir, locals, classes_txt>>

\* main returns and the interpreter exits with status 0
Finish ==
    /\ pc = "images"
    /\ i = Len(Images)
    /\ pc' = "done"
    /\ exit_status' = 0
    /\ UNCHANGED <<args, outdir, i, locals, files, classes_txt, tissue_plots, stderr>>

Next == Validate \/ LoadTable \/ Merged \/ SpotFilter \/ GeneFilter \/ Normalize
        \/ VarianceFilter \/ WriteNormalized \/ SelectReducer \/ FitTransform
        \/ SelectClustering \/ FitPredict \/ ShiftLabels \/ PlotClasses
        \/ OpenClasses \/ WriteClass \/ ClassesWritten \/ PlotImage \/ Finish

Spec == Init /\ [][Next]_vars

\* ========================================================================
\* Properties
\* ========================================================================
Tables == [k \in 1..Len(counts_table_files) |-> counts_table_files[k].table]

\* the positions (k, r) of the rows of the input tables, k from 0
InputRows ==
    UNION {{<<k, r>> : r \in 1..Len(Tables[k + 1].rows)} : k \in 0..(Len(Tables) - 1)}

RawLabel(kr) == Tables[kr[1] + 1].rows[kr[2]].label

\* the number of rows of the tables before table k (from 0)
RECURSIVE RowsBefore(_)
RowsBefore(k) == IF k = 0 THEN 0 ELSE RowsBefore(k - 1) + Len(Tables[k].rows)

SpotIds(c) == [r \in 1..Len(c.spots) |-> c.spots[r].id]

InvalidInput ==
    \/ FilesInvalid
    \/ normalization \notin {RAW, DESeq, TPM}
    \/ dimensionality_algorithm \notin {tSNE, PCA, ICA, SPCA}
    \/ clustering_algorithm \notin {Hierarchical, KMeans}

C2_InvalidInputIsFatal ==
    InvalidInput =>
        /\ pc # "done"
        /\ pc \in {"exit", "crashed"} => exit_status = 1

\* ------------------------------------------------------------------------
\* C3: for each of the names tSNE, PCA, ICA and SPCA, the reducer that is
\* constructed is the algorithm of that name.
\* ------------------------------------------------------------------------
AlgorithmNamed(name) ==
    IF name = tSNE THEN "TSNE"
    ELSE IF name = PCA THEN "PCA"
    ELSE IF name = ICA THEN "FastICA"
    ELSE "SparsePCA"

C3_ReducerMatchesName ==
    (decomp_model # "unset" /\ dimensionality_algorithm \in {tSNE, PCA, ICA, SPCA})
        => decomp_model = AlgorithmNamed(dimensionality_algorithm)

\* ------------------------------------------------------------------------
\* C4: after TPM normalization, for every retained gene g and retained spot
\* s whose total over the retained genes is not zero,
\* normalized(g, s) * spotSum(s) = raw(g, s) * 1e6.
\* ------------------------------------------------------------------------
SpotTotal(c, r) == SumOver(c.spots[r].vals, c.genes)

C4_TpmDividesBySpotTotal ==
    (pc = "variance_filter" /\ normalization = TPM) =>
        \A r \in 1..Len(counts.spots) : \A g \in counts.genes :
            SpotTotal(counts, r) # FromInt(0) =>
                RMul(norm_counts.spots[r].vals[g], SpotTotal(counts, r))
                    = RMul(counts.spots[r].vals[g], FromInt(TPM_SCALE))

\* ------------------------------------------------------------------------
\* C5: once line 154 has run, the labels are those fit_predict returned,
\* each increased by one if one of them was 0 and unchanged otherwise;
\* every label lies in 1..num_clusters; and two spots have the same label
\* exactly when fit_predict gave them the same label.
\* ------------------------------------------------------------------------
C5_LabelsStartAtOne ==
    (fit_labels # <<>> /\ pc # "shift_labels") =>
        /\ Len(labels) = Len(fit_labels)
        /\ IF \E r \in 1..Len(fit_labels) : fit_labels[r] = 0
           THEN \A r \in 1..Len(labels) : labels[r] = fit_labels[r] + 1
           ELSE labels = fit_labels
        /\ \A r \in 1..Len(labels) : labels[r] >= 1 /\ labels[r] <= num_clusters
        /\ \A a, b \in 1..Len(labels) :
               (labels[a] = labels[b]) <=> (fit_labels[a] = fit_labels[b])

\* the labels have been shifted, and two spots differ in their label
C5_Witness ==
    /\ pc = "plot_classes"
    /\ \E r \in 1..Len(fit_labels) : fit_labels[r] = 0
    /\ \E a, b \in 1..Len(labels) : labels[a] # labels[b]

\* ------------------------------------------------------------------------
\* C6: when the run has ended after the label file was written in full,
\* it has not been aborted, and for every image at position i that is an
\* existing file the overlay plot of position i was drawn, with the
\* alignment file at position i if the alignment list has one and with none
\* (the identity) otherwise.
\* ------------------------------------------------------------------------
ClassesFile == OutFile("computed_classes.txt", 0 - 1)

HasFile(f) == \E k \in 1..Len(files) : files[k] = f

LabelFileComplete ==
    /\ HasFile(ClassesFile)
    /\ pc # "write_classes"
    /\ Len(classes_txt) = Len(norm_counts.spots)

ExpectedAlignment(k) ==
    IF alignment_files.given /\ k < Len(alignment_files.items)
    THEN alignment_files.items[k + 1] ELSE NoFile

C6_AlignmentFallback ==
    (LabelFileComplete /\ pc \in {"done", "crashed"}) =>
        /\ pc = "done"
        /\ \A k \in 0..(Len(Images) - 1) :
               Images[k + 1].isfile =>
                   /\ HasFile(OutFile("computed_classes_tissue_{}.png", k))
                   /\ \E n \in 1..Len(tissue_plots) :
                          /\ tissue_plots[n].image = k
                          /\ tissue_plots[n].alignment = ExpectedAlignment(k)

\* ------------------------------------------------------------------------
\* C7: after the quality filter, a spot is retained if and only if its
\* number of non-zero genes, over all genes of the merged matrix, is at
\* least the rounded 10th percentile of that number over all spots; and a
\* gene is retained if and only if its value is at least 2 in at least 10
\* of the retained spots. After the spot filter alone, every gene is still
\* there.
\* ------------------------------------------------------------------------
AllGenes == UNION {Tables[k].genes : k \in 1..Len(Tables)}

\* the value of gene g in input row kr; 0 where the table has no such gene
InputValue(kr, g) ==
    IF g \in Tables[kr[1] + 1].genes THEN Tables[kr[1] + 1].rows[kr[2]].vals[g] ELSE 0

NonZeroGenes(kr) == Cardinality({g \in AllGenes : InputValue(kr, g) # 0})

TenthPercentile ==
    Round(Quantile([n \in 1..Len(SeqOfSet(InputRows)) |->
                       FromInt(NonZeroGenes(SeqOfSet(InputRows)[n]))],
                   <<1, 10>>))

RetainedRows(c) == {c.spots[r].src : r \in 1..Len(c.spots)}

SpotRule(c, thr) ==
    \A kr \in InputRows : kr \in RetainedRows(c) <=> RGeq(FromInt(NonZeroGenes(kr)), thr)

GeneRule(c) ==
    \A g \in AllGenes :
        g \in c.genes <=>
            Cardinality({kr \in RetainedRows(c) : InputValue(kr, g) >= 2}) >= 10

C7_QualityFilter ==
    /\ pc = "gene_filter" => (SpotRule(counts, TenthPercentile) /\ counts.genes = AllGenes)
    /\ pc = "normalize" => (SpotRule(counts, TenthPercentile) /\ GeneRule(counts))

\* a spot was dropped, a gene was kept, and a gene was dropped that has a
\* value of at least 2 in 10 or more spots of the merged matrix
C7_Witness ==
    /\ pc = "normalize"
    /\ RetainedRows(counts) # InputRows
    /\ counts.genes # {}
    /\ \E g \in AllGenes \ counts.genes :
           Cardinality({kr \in InputRows : InputValue(kr, g) >= 2}) >= 10

\* ------------------------------------------------------------------------
\* C8
\* ------------------------------------------------------------------------
\* the line of the k-th retained spot
ExpectedLine(k) == NatToStr(labels[k]) \o <<"\t">> \o norm_counts.spots[k].id

ExpectedLines(n) == [k \in 1..n |-> ExpectedLine(k)]

RECURSIVE LeadingParsed(_)
LeadingParsed(k) ==
    IF k < Len(norm_counts.spots) /\ ParseError(norm_counts.spots[k + 1].id) = "ok"
    THEN LeadingParsed(k + 1) ELSE k

Coords == (0..MaxCoord) \X (0..MaxCoord)

\* the labels "{x}x{y}" of the coordinates, and the coordinate of each
CoordLabels == {CoordLabel(xy[1], xy[2]) : xy \in Coords}

CoordByLabel == [l \in CoordLabels |-> CHOOSE xy \in Coords : l = CoordLabel(xy[1], xy[2])]

WellFormed(l) == l \in CoordLabels

CoordOf(l) == CoordByLabel[l]

\* the positions, among the first n retained spots, of those of table k
RECURSIVE PositionsOf(_, _)
PositionsOf(k, n) ==
    IF n = 0 THEN <<>>
    ELSE IF norm_counts.spots[n].src[1] = k THEN Append(PositionsOf(k, n - 1), n)
    ELSE PositionsOf(k, n - 1)

Handled == IF pc = "write_classes" THEN i ELSE Len(norm_counts.spots)

\* the identifier bc parses, and to the table k and the coordinate xy
ParsesBack(bc, k, xy) ==
    /\ ParseError(bc) = "ok"
    /\ ParseSpot(bc) = [index |-> k, x |-> xy[1], y |-> xy[2]]

\* the arrays of dataset k hold the spots at the positions pos
ArraysHold(k, pos) ==
    /\ x_points_index[k + 1] =
           [n \in 1..Len(pos) |-> CoordOf(RawLabel(norm_counts.spots[pos[n]].src))[1]]
    /\ y_points_index[k + 1] =
           [n \in 1..Len(pos) |-> CoordOf(RawLabel(norm_counts.spots[pos[n]].src))[2]]
    /\ labels_index[k + 1] = [n \in 1..Len(pos) |-> labels[pos[n]]]

Rank(f) ==
    IF f.name = "normalized_counts.tsv" THEN 1
    ELSE IF f.name = "computed_classes.png" THEN 2
    ELSE IF f.name = "computed_classes.txt" THEN 3
    ELSE 4 + f.index

FileNames == {"normalized_counts.tsv", "computed_classes.png", "computed_classes.txt",
              "computed_classes_tissue_{}.png"}

InCreationOrder ==
    /\ \A k \in 1..Len(files) : files[k].name \in FileNames
    /\ \A a, b \in 1..Len(files) : a < b => Rank(files[a]) < Rank(files[b])

FilesAtExit ==
    pc = "exit" =>
        IF stderr \in {"Error, input file/s not present or invalid format\n",
                       "Error, incorrect normalization method\n"}
        THEN files = <<>>
        ELSE /\ stderr \in {"Error, incorrect dimensionality reduction method\n",
                            "Error, incorrect clustering method\n"}
             /\ Len(files) = 1
             /\ files[1].name = "normalized_counts.tsv"

FilesStay == Len(files') >= Len(files) /\ SubSeq(files', 1, Len(files)) = files

C10_OutputOrder == [](InCreationOrder /\ FilesAtExit) /\ [][FilesStay]_vars

\* a run that created all the kinds of file is over
C10_Witness ==
    /\ pc = "done"
    /\ Len(files) = 5

====
